---- MODULE Spec2Model ----
(***************************************************************************)
(* Model of authenticate_device_flow_with_pkce                             *)
(* (lakekeeper/access-control-advanced/notebooks/device_code_auth.py):     *)
(* the OAuth 2.0 Device Authorization Grant with PKCE.                     *)
(*                                                                         *)
(* Text is a sequence of one-character strings, so that str.replace and    *)
(* the base64 encoding can be computed.  A text whose content is never     *)
(* inspected is a one-element sequence holding the whole literal.          *)
(***************************************************************************)
EXTENDS Integers, Sequences, FiniteSets, TLC

\* ------------------------------------------------------------------ bounds
\* polls issued per invocation in the model (the code has no such cap)
MaxPolls == 3
\* number of outcomes of the random source that are enumerated
NumStreams == 2

\* ------------------------------------------------------------- text helpers
\* Python's None (for the optional text arguments and unbound locals)
None == <<"None">>

\* truth value of an optional text: None and "" are falsy
Truthy(v) == v # None /\ Len(v) > 0

StartsWith(s, p) == Len(p) <= Len(s) /\ SubSeq(s, 1, Len(p)) = p

RECURSIVE Contains(_, _)
Contains(s, sub) ==
    IF Len(sub) > Len(s) THEN FALSE
    ELSE IF StartsWith(s, sub) THEN TRUE
    ELSE Contains(Tail(s), sub)

\* str.replace(old, new): every non-overlapping occurrence, left to right;
\* an empty `old` matches before every character and at the end
RECURSIVE Replace(_, _, _)
Replace(s, old, new) ==
    IF Len(old) = 0
    THEN IF Len(s) = 0 THEN new
         ELSE new \o <<Head(s)>> \o Replace(Tail(s), old, new)
    ELSE IF Len(s) = 0 THEN <<>>
    ELSE IF StartsWith(s, old)
         THEN new \o Replace(SubSeq(s, Len(old) + 1, Len(s)), old, new)
         ELSE <<Head(s)>> \o Replace(Tail(s), old, new)

\* ---------------------------------------------------------------- PKCE
Lower == <<"a","b","c","d","e","f","g","h","i","j","k","l","m",
           "n","o","p","q","r","s","t","u","v","w","x","y","z">>
Upper == <<"A","B","C","D","E","F","G","H","I","J","K","L","M",
           "N","O","P","Q","R","S","T","U","V","W","X","Y","Z">>
Digits == <<"0","1","2","3","4","5","6","7","8","9">>

\* the alphabet secrets.choice draws from
VerifierAlphabet == Lower \o Upper \o Digits

\* range(128)
VerifierLen == 128

\* the i-th draw of secrets.choice under one outcome of the random source
SecretsChoice(stream, i) ==
    VerifierAlphabet[((stream * i * i + i + stream) % Len(VerifierAlphabet)) + 1]

\* "".join(secrets.choice(alphabet) for _ in range(128))
GenerateVerifier(stream) == [i \in 1..VerifierLen |-> SecretsChoice(stream, i)]

\* code points of the characters of the verifier alphabet
OrdTable ==
    [k \in 1..Len(VerifierAlphabet) |->
        IF k <= 26 THEN 96 + k
        ELSE IF k <= 52 THEN 64 + (k - 26)
        ELSE 47 + (k - 52)]

\* code point of an ASCII character that occurs in the texts of the model
Ord(c) ==
    IF \E k \in 1..Len(VerifierAlphabet) : VerifierAlphabet[k] = c
    THEN OrdTable[CHOOSE k \in 1..Len(VerifierAlphabet) : VerifierAlphabet[k] = c]
    ELSE IF c = "-" THEN 45
    ELSE IF c = "_" THEN 95
    ELSE IF c = "=" THEN 61
    ELSE IF c = "/" THEN 47
    ELSE 63

\* str.encode("utf-8") of an ASCII text: one byte per character
Utf8Encode(s) == [i \in 1..Len(s) |-> Ord(s[i])]

\* digest_size of SHA-256
DigestLen == 32

\* sum of the position-weighted bytes lo..hi, by halving
RECURSIVE WeightedSum(_, _, _)
WeightedSum(bytes, lo, hi) ==
    IF lo > hi THEN 0
    ELSE IF lo = hi THEN (bytes[lo] * (lo + 7)) % 65521
    ELSE LET mid == (lo + hi) \div 2
         IN  (WeightedSum(bytes, lo, mid) + WeightedSum(bytes, mid + 1, hi)) % 65521

\* hashlib.sha256(...).digest(): a deterministic 32-byte digest of the input
\* (the library's compression function is abstracted by a checksum mix)
Sha256(bytes) ==
    LET h == WeightedSum(bytes, 1, Len(bytes))
    IN  [j \in 1..DigestLen |-> (h * j + j * j + (h \div j)) % 256]

B64Alphabet == Upper \o Lower \o Digits \o <<"-", "_">>

B64Char(v) == B64Alphabet[v + 1]

\* base64.urlsafe_b64encode: 3 bytes -> 4 characters, "=" padding
RECURSIVE UrlsafeB64Encode(_)
UrlsafeB64Encode(bytes) ==
    IF Len(bytes) = 0 THEN <<>>
    ELSE IF Len(bytes) = 1
    THEN <<B64Char(bytes[1] \div 4), B64Char((bytes[1] % 4) * 16), "=", "=">>
    ELSE IF Len(bytes) = 2
    THEN <<B64Char(bytes[1] \div 4),
           B64Char((bytes[1] % 4) * 16 + (bytes[2] \div 16)),
           B64Char((bytes[2] % 16) * 4), "=">>
    ELSE <<B64Char(bytes[1] \div 4),
           B64Char((bytes[1] % 4) * 16 + (bytes[2] \div 16)),
           B64Char((bytes[2] % 16) * 4 + (bytes[3] \div 64)),
           B64Char(bytes[3] % 64)>>
         \o UrlsafeB64Encode(SubSeq(bytes, 4, Len(bytes)))

\* variant: the padding is left on the challenge
PkceChallenge_KeepsPadding(verifier) ==
    UrlsafeB64Encode(Sha256(Utf8Encode(verifier)))

\* variant: the "plain" method, the challenge is the verifier itself
PkceChallenge_Plain(verifier) == verifier

\* base64url(sha256(verifier)) with the padding removed
PkceChallenge(verifier) ==
    Replace(UrlsafeB64Encode(Sha256(Utf8Encode(verifier))), <<"=">>, <<>>)

\* ------------------------------------------------------- literals of the code
FormUrlEncoded == <<"application/x-www-form-urlencoded">>
S256 == <<"S","2","5","6">>
GrantTypeDeviceCode == <<"urn:ietf:params:oauth:grant-type:device_code">>
AuthorizationPending == "authorization_pending"
PromptPrefix == <<"Please open this URL to authenticate: ">>
WaitingMessage == <<"Waiting for authentication to complete...">>
SuccessMessage == <<"Authentication successful">>

\* host names used in the enumerated URLs and rewrite rules
InternalHost == <<"k","c">>
BrowserHost == <<"l","h">>
ProxyHost == <<"p","q">>

\* the default value of the endpoint_rewrite parameter: one rule,
\* a dict is modelled as the sequence of its items in insertion order
DefaultEndpointRewrite ==
    << [original |-> InternalHost, replacement |-> BrowserHost] >>

\* the default value of the polling_interval parameter
DefaultPollingInterval == 5

TokenEndpoint == <<"http://kc/token">>
DeviceEndpoint == <<"http://kc/auth/device">>

\* ------------------------------------------------ enumerated inputs of a call
\* the calls that are enumerated: the arguments of the function
Calls ==
    { \* the call under __main__: scope given, every default
      [token_endpoint |-> TokenEndpoint, device_endpoint |-> DeviceEndpoint,
       client_id |-> <<"c","1">>, scope |-> <<"c","1">>, host_header |-> None,
       polling_interval |-> DefaultPollingInterval,
       endpoint_rewrite |-> DefaultEndpointRewrite],
      \* no scope, a Host header, no rewrite
      [token_endpoint |-> TokenEndpoint, device_endpoint |-> DeviceEndpoint,
       client_id |-> <<"c","1">>, scope |-> None, host_header |-> <<"h">>,
       polling_interval |-> 1,
       endpoint_rewrite |-> <<>>],
      \* empty scope, empty Host header, two rules where the second one
      \* matches the output of the first
      [token_endpoint |-> TokenEndpoint, device_endpoint |-> DeviceEndpoint,
       client_id |-> <<"c","1">>, scope |-> <<>>, host_header |-> <<>>,
       polling_interval |-> 2,
       endpoint_rewrite |->
           << [original |-> InternalHost, replacement |-> BrowserHost],
              [original |-> BrowserHost, replacement |-> ProxyHost] >>],
      \* the same two rules in the other order
      [token_endpoint |-> TokenEndpoint, device_endpoint |-> DeviceEndpoint,
       client_id |-> <<"c","2">>, scope |-> <<"s">>, host_header |-> None,
       polling_interval |-> DefaultPollingInterval,
       endpoint_rewrite |->
           << [original |-> BrowserHost, replacement |-> ProxyHost],
              [original |-> InternalHost, replacement |-> BrowserHost] >>] }

\* ------------------------------------------------ enumerated server answers
\* a response body: not JSON, JSON null, an (empty) JSON array, a JSON object
NotJson == [kind |-> "notjson"]
JsonNull == [kind |-> "null"]
JsonArray == [kind |-> "array"]
JsonObject(f) == [kind |-> "object", fields |-> f]
EmptyFields == [k \in {} |-> ""]

DeviceStatuses == {200, 302, 400}

DeviceBodies ==
    { NotJson,
      \* the URL holds the internal host twice, and so does the device code
      JsonObject([device_code |-> InternalHost \o <<"9">>,
                  verification_uri_complete |->
                      InternalHost \o <<"/">> \o InternalHost \o <<"?">>]),
      JsonObject([device_code |-> <<"d","1">>,
                  verification_uri_complete |-> <<"x","/">> \o BrowserHost]),
      JsonObject([verification_uri_complete |-> <<"x","/">>]) }

DeviceResponses == [status : DeviceStatuses, body : DeviceBodies]

TokenStatuses == {200, 302, 400}

TokenBodies ==
    { NotJson, JsonNull, JsonArray,
      JsonObject(EmptyFields),
      JsonObject([error |-> AuthorizationPending]),
      JsonObject([error |-> "access_denied"]),
      JsonObject([access_token |-> "abc"]) }

TokenResponses == [status : TokenStatuses, body : TokenBodies]

NoResponse == [status |-> 0, body |-> [kind |-> "none"]]

\* ------------------------------------------------------ outcome of the call
NoResult == [kind |-> "none"]
Returned(v) == [kind |-> "returned", value |-> v]
Raised(e) == [kind |-> "raised", exc |-> e]

\* ------------------------------------------------------------------- state
VARIABLES
    args,                       \* the arguments of the call
    endpoint_rewrite,           \* the dict object passed as endpoint_rewrite
    pc,                         \* position in the function
    scope,                      \* local: the resolved scope
    pkce_code_verifier,         \* local
    pkce_code_challenge,        \* local
    headers,                    \* local
    response,                   \* local: the latest HTTP response
    verification_uri_complete,  \* local: the (rewritten) URL
    device_code,                \* local
    wire,                       \* the requests sent, in order
    stdout,                     \* the lines printed, in order
    sleeps,                     \* the arguments of time.sleep, in order
    result,                     \* what the call returned or raised
    deviceResponse,             \* history: the device endpoint's answer
    respCount,                  \* history: token responses received
    pendingResps                \* history: ... of which non-200 and pending

\* two invocations of the function side by side
VARIABLES
    flows,                      \* per invocation: its locals and its history
    shared_rewrite              \* the one dict object that is the default
                                \* value of endpoint_rewrite

\* argilla_base.py: the client with retries and the dataset creation
VARIABLES
    argilla_max_retries,        \* MAX_RETRIES of argilla_base.py (environment)
    argilla_retry_delay,        \* RETRY_DELAY_SECONDS (environment)
    a_pc,                       \* position of the Argilla script
    attempt_outcomes,           \* history: how each connection attempt ended
    a_sleeps,                   \* the arguments of time.sleep, in order
    client,                     \* what init_argilla_client returned
    server_datasets,            \* names of the datasets in the workspace
    create_log,                 \* the dataset.create() calls, in order
    ds_calls,                   \* calls of create_dataset_if_not_exists so far
    ds_last,                    \* history: the latest of these calls
    ds_result                   \* what the latest of these calls returned/raised

\* load_doccano_data.py: the health wait and main
VARIABLES
    d_pc,                       \* position of the Doccano script
    health_requests,            \* health requests sent so far
    d_sleeps,                   \* the arguments of time.sleep, in order
    timeout_prints,             \* timeout messages printed
    last_health,                \* history: how the latest health request ended
    wait_result,                \* what wait_for_doccano returned
    calls,                      \* the DoccanoClient calls made, in order
    call_failures,              \* history: the calls that raised
    project_source,             \* whether the project was reused or created
    exit_code                   \* the status the script exited with

flowVars == << args, endpoint_rewrite, pc, scope, pkce_code_verifier,
               pkce_code_challenge, headers, response,
               verification_uri_complete, device_code, wire, stdout, sleeps,
               result, deviceResponse, respCount, pendingResps >>

multiVars == << flows, shared_rewrite >>

argillaVars == << argilla_max_retries, argilla_retry_delay, a_pc,
                  attempt_outcomes, a_sleeps, client, server_datasets,
                  create_log, ds_calls, ds_last, ds_result >>

doccanoVars == << d_pc, health_requests, d_sleeps, timeout_prints, last_health,
                  wait_result, calls, call_failures, project_source,
                  exit_code >>

\* load_text_classification_data.py: the imported pipeline factory (or None),
\* the module-level cache, the pipeline(...) calls made and how they ended,
\* the list prepare_records builds, and where the loader is
VARIABLES
    pipeline,
    LOADED_PIPELINE_CACHE,
    load_log,
    records,
    t_pc

textVars == << pipeline, LOADED_PIPELINE_CACHE, load_log, records, t_pc >>

vars == << flowVars, multiVars, argillaVars, doccanoVars, textVars >>

\* the part of the state that a specification does not use stays as it is
TextIdle ==
    /\ pipeline = "None"
    /\ LOADED_PIPELINE_CACHE = {}
    /\ load_log = <<>>
    /\ records = <<>>
    /\ t_pc = "idle"

MultiIdle == flows = <<>> /\ shared_rewrite = DefaultEndpointRewrite

ArgillaIdle ==
    /\ argilla_max_retries = 0
    /\ argilla_retry_delay = 0
    /\ a_pc = "idle"
    /\ attempt_outcomes = <<>>
    /\ a_sleeps = <<>>
    /\ client = "None"
    /\ server_datasets = {}
    /\ create_log = <<>>
    /\ ds_calls = 0
    /\ ds_last = [name |-> "", fault |-> "none", existed |-> FALSE]
    /\ ds_result = NoResult

DoccanoIdle ==
    /\ d_pc = "idle"
    /\ health_requests = 0
    /\ d_sleeps = <<>>
    /\ timeout_prints = 0
    /\ last_health = [kind |-> "none", status |-> 0]
    /\ wait_result = "None"
    /\ calls = <<>>
    /\ call_failures = {}
    /\ project_source = "none"
    /\ exit_code = "None"

\* --------------------------------------------------- pieces of the function
\* requests' Response.raise_for_status(): raises HTTPError for 4xx and 5xx
RaisesForStatus(status) == 400 <= status /\ status < 600

\* variant: no default for the scope
ResolveScope_NoDefault(s, client_id) == s

\* scope = client_id if scope is None
ResolveScope(s, client_id) == IF s = None THEN client_id ELSE s

\* variant: the Host header is never set
BuildHeaders_NoHost(host_header) == ("Content-type" :> FormUrlEncoded)

\* headers: Content-type always, Host when host_header is truthy
BuildHeaders(host_header) ==
    IF Truthy(host_header)
    THEN ("Content-type" :> FormUrlEncoded) @@ ("Host" :> host_header)
    ELSE ("Content-type" :> FormUrlEncoded)

\* the form of the device-code request
DeviceRequestData(client_id, challenge, sc) ==
    LET data == [client_id |-> client_id,
                 code_challenge_method |-> S256,
                 code_challenge |-> challenge]
    IN  IF Truthy(sc) THEN data @@ ("scope" :> sc) ELSE data

\* variant: the challenge is sent where the verifier belongs
TokenRequestData_SendsChallenge(client_id, dcode, verifier) ==
    [grant_type |-> GrantTypeDeviceCode,
     client_id |-> client_id,
     device_code |-> dcode,
     code_verifier |-> pkce_code_challenge]

\* the form of a token poll request
TokenRequestData(client_id, dcode, verifier) ==
    [grant_type |-> GrantTypeDeviceCode,
     client_id |-> client_id,
     device_code |-> dcode,
     code_verifier |-> verifier]

\* requests.post(url=..., data=..., headers=..., allow_redirects=False)
Post(url, data, hdrs) ==
    [url |-> url, data |-> data, headers |-> hdrs, allow_redirects |-> FALSE]

\* variant: the rewrite rules are applied to the device code as well
DeviceCodeOf_Rewritten(device_response) ==
    LET Rw[k \in 0..Len(endpoint_rewrite)] ==
            IF k = 0 THEN device_response.device_code
            ELSE Replace(Rw[k - 1], endpoint_rewrite[k].original,
                         endpoint_rewrite[k].replacement)
    IN  Rw[Len(endpoint_rewrite)]

\* device_code = device_response["device_code"]
DeviceCodeOf(device_response) == device_response.device_code

\* variant: the rules are applied last rule first
RECURSIVE RewriteUrl_LastRuleFirst(_, _)
RewriteUrl_LastRuleFirst(url, rules) ==
    IF Len(rules) = 0 THEN url
    ELSE RewriteUrl_LastRuleFirst(
             Replace(url, rules[Len(rules)].original,
                     rules[Len(rules)].replacement),
             SubSeq(rules, 1, Len(rules) - 1))

\* the loop over endpoint_rewrite.items(): each rule is applied to the
\* running URL, in the order of the dict
RECURSIVE RewriteUrl(_, _)
RewriteUrl(url, rules) ==
    IF Len(rules) = 0 THEN url
    ELSE RewriteUrl(Replace(url, Head(rules).original, Head(rules).replacement),
                    Tail(rules))

\* what lines 69-80 do with the answer of the device endpoint: raise, or
\* go on to display the rewritten URL and poll with the device code
HandleDeviceResponse(r, rules) ==
    IF RaisesForStatus(r.status)
    THEN [next |-> "raise", exc |-> "HTTPError"]
    ELSE IF r.body.kind = "notjson"
    THEN [next |-> "raise", exc |-> "JSONDecodeError"]
    ELSE IF \/ "verification_uri_complete" \notin DOMAIN r.body.fields
            \/ "device_code" \notin DOMAIN r.body.fields
    THEN [next |-> "raise", exc |-> "KeyError"]
    ELSE [next |-> "poll",
          uri |-> IF Len(rules) > 0
                  THEN RewriteUrl(r.body.fields.verification_uri_complete, rules)
                  ELSE r.body.fields.verification_uri_complete,
          device_code |-> DeviceCodeOf(r.body.fields)]

\* variant: the retry test compares against another error code
IsAuthorizationPending_SlowDown(body) ==
    /\ body.kind = "object"
    /\ "error" \in DOMAIN body.fields
    /\ body.fields.error = "slow_down"

\* "error" in error_data and error_data["error"] == "authorization_pending"
IsAuthorizationPending(body) ==
    /\ body.kind = "object"
    /\ "error" \in DOMAIN body.fields
    /\ body.fields.error = AuthorizationPending

\* what one iteration of the polling loop does with the response:
\* return, raise, sleep and poll again, or fall through to the next iteration
HandleTokenResponse(r) ==
    IF r.status = 200
    THEN IF r.body.kind = "notjson"
         THEN [next |-> "raise", exc |-> "JSONDecodeError"]
         ELSE [next |-> "return", value |-> r.body]
    ELSE IF r.body.kind = "notjson"
    THEN \* except (ValueError, JSONDecodeError): response.raise_for_status()
         IF RaisesForStatus(r.status)
         THEN [next |-> "raise", exc |-> "HTTPError"]
         ELSE [next |-> "loop"]
    ELSE IF r.body.kind = "null"
    THEN \* "error" in None
         [next |-> "raise", exc |-> "TypeError"]
    ELSE IF IsAuthorizationPending(r.body)
    THEN [next |-> "sleep"]
    ELSE \* some other error: response.raise_for_status()
         IF RaisesForStatus(r.status)
         THEN [next |-> "raise", exc |-> "HTTPError"]
         ELSE [next |-> "loop"]

\* variant: sleeps for the default interval whatever the argument
Sleep_DefaultInterval(log, interval) == Append(log, DefaultPollingInterval)

\* variant: the URL is displayed again while waiting
PrintWaiting_WithUrl(out) == Append(out, PromptPrefix \o verification_uri_complete)

\* print("Waiting for authentication to complete...")
PrintWaiting(out) == Append(out, WaitingMessage)

\* time.sleep(polling_interval)
Sleep(log, interval) == Append(log, interval)

IsTokenRequest(req) == "grant_type" \in DOMAIN req.data
IsDeviceRequest(req) == "code_challenge" \in DOMAIN req.data
PollRequests == SelectSeq(wire, IsTokenRequest)
DeviceRequests == SelectSeq(wire, IsDeviceRequest)
polls == Len(PollRequests)

\* ------------------------------------------------------------------ actions
Init ==
    /\ args \in Calls
    /\ endpoint_rewrite = args.endpoint_rewrite
    /\ pc = "init"
    /\ scope = None
    /\ pkce_code_verifier = None
    /\ pkce_code_challenge = None
    /\ headers = EmptyFields
    /\ response = NoResponse
    /\ verification_uri_complete = None
    /\ device_code = None
    /\ wire = <<>>
    /\ stdout = <<>>
    /\ sleeps = <<>>
    /\ result = NoResult
    /\ deviceResponse = NoResponse
    /\ respCount = 0
    /\ pendingResps = 0
    /\ MultiIdle
    /\ ArgillaIdle
    /\ DoccanoIdle
    /\ TextIdle

\* lines 36-68: resolve the scope, generate the verifier and the challenge,
\* build the headers and the form, send the device-code request
RequestDeviceCode ==
    /\ pc = "init"
    /\ \E stream \in 1..NumStreams :
        LET sc == ResolveScope(args.scope, args.client_id)
            verifier == GenerateVerifier(stream)
            challenge == PkceChallenge(verifier)
            hdrs == BuildHeaders(args.host_header)
        IN  /\ scope' = sc
            /\ pkce_code_verifier' = verifier
            /\ pkce_code_challenge' = challenge
            /\ headers' = hdrs
            /\ wire' = Append(wire,
                   Post(args.device_endpoint,
                        DeviceRequestData(args.client_id, challenge, sc), hdrs))
    /\ pc' = "device_wait"
    /\ UNCHANGED << args, endpoint_rewrite, response, verification_uri_complete,
                    device_code, stdout, sleeps, result, deviceResponse,
                    respCount, pendingResps >>
    /\ UNCHANGED << multiVars, argillaVars, doccanoVars, textVars >>

\* lines 66-83: the device endpoint answers; raise_for_status, parse, read
\* the two fields, rewrite the URL for display, print it
ReceiveDeviceResponse ==
    /\ pc = "device_wait"
    /\ \E r \in DeviceResponses :
        /\ response' = r
        /\ deviceResponse' = r
        /\ LET step == HandleDeviceResponse(r, endpoint_rewrite)
           IN  IF step.next = "raise"
               THEN /\ result' = Raised(step.exc)
                    /\ pc' = "failed"
                    /\ UNCHANGED << verification_uri_complete, device_code,
                                    stdout >>
               ELSE /\ verification_uri_complete' = step.uri
                    /\ device_code' = step.device_code
                    /\ stdout' = Append(stdout, PromptPrefix \o step.uri)
                    /\ pc' = "poll"
                    /\ UNCHANGED result
    /\ UNCHANGED << args, endpoint_rewrite, scope, pkce_code_verifier,
                    pkce_code_challenge, headers, wire, sleeps,
                    respCount, pendingResps >>
    /\ UNCHANGED << multiVars, argillaVars, doccanoVars, textVars >>

\* lines 87-97: send one token poll request
SendPoll ==
    /\ pc = "poll"
    /\ polls < MaxPolls
    /\ wire' = Append(wire,
           Post(args.token_endpoint,
                TokenRequestData(args.client_id, device_code, pkce_code_verifier),
                headers))
    /\ pc' = "poll_wait"
    /\ UNCHANGED << args, endpoint_rewrite, scope, pkce_code_verifier,
                    pkce_code_challenge, headers, response,
                    verification_uri_complete, device_code, stdout, sleeps,
                    result, deviceResponse, respCount, pendingResps >>
    /\ UNCHANGED << multiVars, argillaVars, doccanoVars, textVars >>

\* lines 99-115: the token endpoint answers
ReceiveTokenResponse ==
    /\ pc = "poll_wait"
    /\ \E r \in TokenResponses :
        LET step == HandleTokenResponse(r)
        IN  /\ response' = r
            /\ respCount' = respCount + 1
            /\ pendingResps' =
                   IF /\ r.status # 200
                      /\ r.body.kind = "object"
                      /\ "error" \in DOMAIN r.body.fields
                      /\ r.body.fields.error = AuthorizationPending
                   THEN pendingResps + 1 ELSE pendingResps
            /\ stdout' = IF r.status = 200 THEN Append(stdout, SuccessMessage)
                         ELSE IF step.next = "sleep"
                         THEN PrintWaiting(stdout)
                         ELSE stdout
            /\ sleeps' = IF step.next = "sleep"
                         THEN Sleep(sleeps, args.polling_interval)
                         ELSE sleeps
            /\ result' = IF step.next = "return" THEN Returned(step.value)
                         ELSE IF step.next = "raise" THEN Raised(step.exc)
                         ELSE result
            /\ pc' = IF step.next = "return" THEN "success"
                     ELSE IF step.next = "raise" THEN "failed"
                     ELSE "poll"
    /\ UNCHANGED << args, endpoint_rewrite, scope, pkce_code_verifier,
                    pkce_code_challenge, headers, verification_uri_complete,
                    device_code, wire, deviceResponse >>
    /\ UNCHANGED << multiVars, argillaVars, doccanoVars, textVars >>

Next ==
    \/ RequestDeviceCode
    \/ ReceiveDeviceResponse
    \/ SendPoll
    \/ ReceiveTokenResponse

Spec == Init /\ [][Next]_vars

\* once a sleep returns (or the URL is printed) the loop sends its next request
FairSpec == Spec /\ WF_vars(SendPoll)

\* ------------------------------------------------- vocabulary of the claims
\* the control state of the flow
ControlState ==
    CASE pc = "init" -> "INIT"
      [] pc = "device_wait" -> "DEVICE_CODE_REQUESTED"
      [] pc \in {"poll", "poll_wait"} -> "POLLING"
      [] pc = "success" -> "SUCCESS"
      [] pc = "failed" -> "FAILED"

Terminal == pc \in {"success", "failed"}

\* the body is a JSON object whose `error` is "authorization_pending"
BodyErrorPending(body) ==
    /\ body.kind = "object"
    /\ "error" \in DOMAIN body.fields
    /\ body.fields.error = "authorization_pending"

\* the body is a JSON object with another `error` value or without the key
BodyOtherError(body) ==
    /\ body.kind = "object"
    /\ ~BodyErrorPending(body)

\* `response` holds an answer of the token endpoint
TokenAnswered == respCount > 0

\* the device endpoint's answer went through: no HTTPError, both fields read
DeviceAccepted ==
    /\ deviceResponse # NoResponse
    /\ ~RaisesForStatus(deviceResponse.status)
    /\ deviceResponse.body.kind = "object"
    /\ {"device_code", "verification_uri_complete"}
           \subseteq DOMAIN deviceResponse.body.fields

Is2xx(status) == 200 <= status /\ status < 300

\* ------------------------------------------------------------------ claims
\* C1 (as stated): a non-200 token response whose JSON body has an `error`
\* other than "authorization_pending", or no `error` key, makes the flow fail
\* on that response: no sleep and no further poll request, whatever the status.
C1_OtherErrorIsFatal ==
    (TokenAnswered /\ response.status # 200 /\ BodyOtherError(response.body))
        => /\ pc = "failed"
           /\ polls = respCount
           /\ Len(sleeps) = pendingResps

\* C2: when the first n token responses are non-200 authorization_pending and
\* the next one is a 200 with a JSON body, the flow has sent exactly n+1 poll
\* requests, has slept exactly n times, each for polling_interval (one sleep
\* per pending response, none before the first poll), and returns that body.
C2_PendingThenSuccess ==
    /\ (respCount = pendingResps)
           => /\ sleeps = [i \in 1..respCount |-> args.polling_interval]
              /\ polls \in {respCount, respCount + 1}
              /\ (pc = "poll" => polls = respCount)
    /\ (/\ TokenAnswered
        /\ response.status = 200
        /\ response.body.kind # "notjson"
        /\ pendingResps = respCount - 1)
           => /\ pc = "success"
              /\ polls = respCount
              /\ sleeps = [i \in 1..pendingResps |-> args.polling_interval]
              /\ result = Returned(response.body)

C2_Witness ==
    /\ pc = "success"
    /\ respCount = 3
    /\ pendingResps = 2
    /\ Len(sleeps) = 2
    /\ result = Returned(JsonObject([access_token |-> "abc"]))

\* C3 (as stated): a non-2xx answer of the device endpoint makes the flow
\* fail with an error, with no token poll request sent and no URL displayed.
C3_DeviceNon2xxFails ==
    (deviceResponse # NoResponse /\ ~Is2xx(deviceResponse.status))
        => /\ pc = "failed"
           /\ result.kind = "raised"
           /\ polls = 0
           /\ stdout = <<>>

\* C4 (as stated): a non-200 token response whose body is not JSON makes the
\* flow fail on that response, with no further poll request, whatever the
\* status.
C4_UnparsableIsFatal ==
    (TokenAnswered /\ response.status # 200 /\ response.body.kind = "notjson")
        => /\ pc = "failed"
           /\ result.kind = "raised"
           /\ polls = respCount

\* C5 (as stated): the control states are INIT, DEVICE_CODE_REQUESTED,
\* POLLING, SUCCESS and FAILED, visited in that order; a token response leaves
\* the flow in POLLING only when it is authorization_pending, every other one
\* leads to SUCCESS or FAILED; SUCCESS and FAILED are terminal.
C5_StateMachine ==
    [][ /\ ControlState # ControlState' =>
            \/ ControlState = "INIT" /\ ControlState' = "DEVICE_CODE_REQUESTED"
            \/ ControlState = "DEVICE_CODE_REQUESTED"
                   /\ ControlState' \in {"POLLING", "FAILED"}
            \/ ControlState = "POLLING"
                   /\ ControlState' \in {"SUCCESS", "FAILED"}
        /\ (respCount' = respCount + 1) =>
            IF ControlState' = "POLLING"
            THEN BodyErrorPending(response'.body)
            ELSE ControlState' \in {"SUCCESS", "FAILED"}
        /\ Terminal => UNCHANGED vars ]_vars

\* C6: no cap on the number of polls: as long as every token response so far
\* was authorization_pending the flow has neither returned nor failed, and
\* after k such responses it sends poll request k+1.
C6_NoPollCap ==
    /\ [](DeviceAccepted /\ respCount = pendingResps
              => /\ pc \in {"poll", "poll_wait"}
                 /\ result = NoResult
                 /\ polls \in {respCount, respCount + 1})
    /\ \A k \in 0..(MaxPolls - 1) :
           (DeviceAccepted /\ respCount = k /\ pendingResps = k)
               ~> (polls = k + 1)

C6_Witness ==
    /\ respCount = MaxPolls - 1
    /\ pendingResps = MaxPolls - 1
    /\ pc = "poll_wait"
    /\ polls = MaxPolls

C8_VerifierMatchesChallenge ==
    \A i \in 1..Len(PollRequests) :
        /\ PollRequests[i].data.code_verifier = PollRequests[1].data.code_verifier
        /\ Len(DeviceRequests) = 1
        /\ PkceChallenge(PollRequests[i].data.code_verifier)
               = DeviceRequests[1].data.code_challenge

C8_Witness ==
    /\ Len(PollRequests) >= 2
    /\ Len(DeviceRequests[1].data.code_challenge) = 43
    /\ Len(PollRequests[2].data.code_verifier) = VerifierLen

\* the request carries the text v in its URL, a form field or a header
Carries(req, v) ==
    \/ Contains(req.url, v)
    \/ \E k \in DOMAIN req.data : Contains(req.data[k], v)
    \/ \E h \in DOMAIN req.headers : Contains(req.headers[h], v)

Chars(s) == {s[i] : i \in 1..Len(s)}

\* rule i of the mapping is not undone by itself or a later rule: no
\* replacement from rule i on can produce a character of its original
RuleSettled(rules, i) ==
    /\ Len(rules[i].original) > 0
    /\ \A j \in i..Len(rules) :
        /\ Len(rules[j].replacement) > 0
        /\ Chars(rules[j].replacement) \cap Chars(rules[i].original) = {}

\* C10: endpoint_rewrite changes the displayed URL only: the displayed URL is
\* the server's URL with the occurrences of each mapped substring replaced
\* (no occurrence of a settled rule's original is left), the device_code of
\* every poll request is the server's device_code unchanged, and the mapping
\* is what the caller passed.
C10_RewriteDisplayOnly ==
    /\ endpoint_rewrite = args.endpoint_rewrite
    /\ DeviceAccepted =>
        LET served == deviceResponse.body.fields
            shown == SubSeq(stdout[1], Len(PromptPrefix) + 1, Len(stdout[1]))
        IN  /\ SubSeq(stdout[1], 1, Len(PromptPrefix)) = PromptPrefix
            /\ shown = RewriteUrl(served.verification_uri_complete,
                                  args.endpoint_rewrite)
            /\ \A i \in 1..Len(args.endpoint_rewrite) :
                   RuleSettled(args.endpoint_rewrite, i)
                       => ~Contains(shown, args.endpoint_rewrite[i].original)
            /\ (Len(args.endpoint_rewrite) = 0)
                   => shown = served.verification_uri_complete
            /\ \A n \in 1..Len(PollRequests) :
                   PollRequests[n].data.device_code = served.device_code

C10_Witness ==
    /\ Len(PollRequests) >= 1
    /\ Len(endpoint_rewrite) >= 1
    /\ Contains(deviceResponse.body.fields.device_code,
                endpoint_rewrite[1].original)
    /\ Contains(deviceResponse.body.fields.verification_uri_complete,
                endpoint_rewrite[1].original)
    /\ ~Contains(stdout[1], endpoint_rewrite[1].original)
    /\ PollRequests[1].data.device_code = deviceResponse.body.fields.device_code

\* a printed line that displays a verification URL
IsUrlDisplay(line) == StartsWith(line, PromptPrefix)
UrlDisplays == SelectSeq(stdout, IsUrlDisplay)

\* C11 (as stated): an invocation makes exactly one device-code request and
\* exactly one display of the URL, the request before the display, the display
\* before the first token poll, every further request a token poll.
C11_OneRequestOneDisplay ==
    Terminal =>
        /\ Len(DeviceRequests) = 1
        /\ IsDeviceRequest(wire[1])
        /\ Len(UrlDisplays) = 1
        /\ \A i \in 2..Len(wire) : IsTokenRequest(wire[i])

\* C11 (amended): once started, an invocation has made exactly one
\* device-code request, its first request; every further request is a token
\* poll; the URL is displayed at most once: exactly once when the answer to
\* the device-code request went through, never when it did not; and no token
\* poll is sent before the display.
C11_OneRequestAtMostOneDisplay ==
    /\ (pc = "init") => (wire = <<>> /\ stdout = <<>>)
    /\ (pc # "init") =>
        /\ Len(DeviceRequests) = 1
        /\ IsDeviceRequest(wire[1])
        /\ \A i \in 2..Len(wire) :
               IsTokenRequest(wire[i]) /\ ~IsDeviceRequest(wire[i])
        /\ Len(UrlDisplays) = (IF DeviceAccepted THEN 1 ELSE 0)
        /\ (Len(UrlDisplays) = 1) => IsUrlDisplay(stdout[1])
        /\ (polls > 0) => Len(UrlDisplays) = 1

C11_Witness ==
    /\ Terminal
    /\ polls >= 2
    /\ Len(stdout) >= 3
    /\ Len(UrlDisplays) = 1

\* the scope after the default was applied
ResolvedScope == IF args.scope = None THEN args.client_id ELSE args.scope

\* C13: the device-code request carries scope = client_id when scope is None,
\* the given scope when it is given and non-empty, and no scope field exactly
\* when the resolved scope is empty.
C13_ScopeDefault ==
    \A i \in 1..Len(DeviceRequests) :
        LET data == DeviceRequests[i].data
        IN  /\ (args.scope = None /\ Len(args.client_id) > 0)
                => ("scope" \in DOMAIN data /\ data.scope = args.client_id)
            /\ (args.scope # None /\ Len(args.scope) > 0)
                => ("scope" \in DOMAIN data /\ data.scope = args.scope)
            /\ ("scope" \notin DOMAIN data) <=> (Len(ResolvedScope) = 0)

C13_Witness ==
    /\ Len(DeviceRequests) = 1
    /\ args.scope = None
    /\ DeviceRequests[1].data.scope = args.client_id

\* C14 (as stated): every request carries the form-urlencoded content type,
\* carries a Host header if and only if host_header was provided (is not
\* None), and all requests of the invocation carry the same headers.
C14_HostIffProvided ==
    \A i \in 1..Len(wire) :
        /\ "Content-type" \in DOMAIN wire[i].headers
        /\ wire[i].headers["Content-type"] = FormUrlEncoded
        /\ ("Host" \in DOMAIN wire[i].headers) <=> (args.host_header # None)
        /\ wire[i].headers = wire[1].headers

\* C14 (amended): every request carries the form-urlencoded content type,
\* carries a Host header, with the value of host_header, if and only if
\* host_header was provided and is not empty, and all requests of the
\* invocation carry the same headers.
C14_HostIffNonEmpty ==
    \A i \in 1..Len(wire) :
        /\ "Content-type" \in DOMAIN wire[i].headers
        /\ wire[i].headers["Content-type"] = FormUrlEncoded
        /\ ("Host" \in DOMAIN wire[i].headers)
               <=> (args.host_header # None /\ Len(args.host_header) > 0)
        /\ ("Host" \in DOMAIN wire[i].headers)
               => wire[i].headers["Host"] = args.host_header
        /\ DOMAIN wire[i].headers \subseteq {"Content-type", "Host"}
        /\ wire[i].headers = wire[1].headers

C14_Witness ==
    /\ Len(wire) >= 3
    /\ "Host" \in DOMAIN wire[3].headers
    /\ wire[3].headers["Host"] = <<"h">>

\* the 62 characters A-Z, a-z, 0-9
AlphaNumeric ==
    {Lower[k] : k \in 1..Len(Lower)} \cup {Upper[k] : k \in 1..Len(Upper)}
        \cup {Digits[k] : k \in 1..Len(Digits)}

\* C15: the generated verifier has exactly 128 characters, each one of the 62
\* alphanumeric characters, and the derived challenge holds no "=".
C15_VerifierShape ==
    (pc # "init") =>
        /\ Len(pkce_code_verifier) = 128
        /\ \A i \in 1..Len(pkce_code_verifier) :
               pkce_code_verifier[i] \in AlphaNumeric
        /\ Cardinality(AlphaNumeric) = 62
        /\ \A i \in 1..Len(pkce_code_challenge) : pkce_code_challenge[i] # "="
        /\ \A n \in 1..Len(wire) :
               /\ IsDeviceRequest(wire[n]) =>
                      /\ wire[n].data.code_challenge = pkce_code_challenge
                      /\ ~Contains(wire[n].data.code_challenge, <<"=">>)
               /\ IsTokenRequest(wire[n]) =>
                      Len(wire[n].data.code_verifier) = 128

C15_Witness ==
    /\ Len(PollRequests) >= 1
    /\ Len(PollRequests[1].data.code_verifier) = 128
    /\ Len(DeviceRequests[1].data.code_challenge) = 43
    /\ Cardinality({pkce_code_verifier[i] : i \in 1..128}) > 10

\* the two-rule mappings of the enumerated calls
ChainedRules ==
    << [original |-> InternalHost, replacement |-> BrowserHost],
       [original |-> BrowserHost, replacement |-> ProxyHost] >>
ChainedRulesSwapped == << ChainedRules[2], ChainedRules[1] >>

\* the URL that was displayed
ShownUrl == SubSeq(stdout[1], Len(PromptPrefix) + 1, Len(stdout[1]))

\* C16: the rules are applied one after another, in the order of the mapping,
\* each to the output of the rules before it: with kc->lh then lh->pq the text
\* produced by the first rule is rewritten again by the second, with the
\* rules swapped it is not, so the displayed URL depends on the order.
C16_RewriteInOrder ==
    DeviceAccepted =>
        LET served == deviceResponse.body.fields.verification_uri_complete
            rules == args.endpoint_rewrite
        IN  /\ (Len(rules) = 1) =>
                   ShownUrl = Replace(served, rules[1].original,
                                      rules[1].replacement)
            /\ (Len(rules) = 2) =>
                   ShownUrl = Replace(Replace(served, rules[1].original,
                                              rules[1].replacement),
                                      rules[2].original, rules[2].replacement)
            /\ (rules = ChainedRules
                    /\ served = <<"k","c","/","k","c","?">>)
                   => ShownUrl = <<"p","q","/","p","q","?">>
            /\ (rules = ChainedRulesSwapped
                    /\ served = <<"k","c","/","k","c","?">>)
                   => ShownUrl = <<"l","h","/","l","h","?">>
            /\ (rules = ChainedRulesSwapped
                    /\ served = <<"x","/","l","h">>)
                   => ShownUrl = <<"x","/","p","q">>

C16_Witness ==
    /\ DeviceAccepted
    /\ args.endpoint_rewrite = ChainedRules
    /\ deviceResponse.body.fields.verification_uri_complete
           = <<"k","c","/","k","c","?">>
    /\ ShownUrl = <<"p","q","/","p","q","?">>
    /\ ShownUrl # RewriteUrl(deviceResponse.body.fields.verification_uri_complete,
                             ChainedRulesSwapped)

\* ------------------------------------------- two invocations side by side
\* polls issued per invocation when two invocations run side by side
MaxPollsMulti == 2

Invocations == {1, 2}

\* the state of the single-invocation model while it is not used
FlowIdle ==
    /\ args = CHOOSE c \in Calls : c.scope = None
    /\ endpoint_rewrite = args.endpoint_rewrite
    /\ pc = "init"
    /\ scope = None
    /\ pkce_code_verifier = None
    /\ pkce_code_challenge = None
    /\ headers = EmptyFields
    /\ response = NoResponse
    /\ verification_uri_complete = None
    /\ device_code = None
    /\ wire = <<>>
    /\ stdout = <<>>
    /\ sleeps = <<>>
    /\ result = NoResult
    /\ deviceResponse = NoResponse
    /\ respCount = 0
    /\ pendingResps = 0

\* the calls of the two invocations: different users, every default, so
\* both receive the same dict object as endpoint_rewrite
MultiCall(i) ==
    [token_endpoint |-> TokenEndpoint, device_endpoint |-> DeviceEndpoint,
     client_id |-> IF i = 1 THEN <<"c","1">> ELSE <<"c","2">>,
     scope |-> None, host_header |-> None,
     polling_interval |-> DefaultPollingInterval,
     endpoint_rewrite |-> DefaultEndpointRewrite]

MultiDeviceResponses ==
    { r \in DeviceResponses :
        \/ r.status = 400 /\ r.body = NotJson
        \/ /\ r.status = 200
           /\ r.body.kind = "object"
           /\ "device_code" \in DOMAIN r.body.fields }

MultiTokenResponses ==
    { r \in TokenResponses :
        \/ r.status = 200 /\ r.body = JsonObject([access_token |-> "abc"])
        \/ r.status = 400 /\ r.body = JsonObject([error |-> AuthorizationPending])
        \/ r.status = 400 /\ r.body = JsonObject([error |-> "access_denied"])
        \/ r.status = 302 /\ r.body = NotJson }

\* the frame of one invocation at entry: its arguments, unbound locals, and
\* (history) what it was answered so far
NewFlow(call) ==
    [pc |-> "init", call |-> call, stream |-> 0,
     verifier |-> None, challenge |-> None, headers |-> EmptyFields,
     device_code |-> None, uri |-> None,
     wire |-> <<>>, stdout |-> <<>>, sleeps |-> <<>>, result |-> NoResult,
     devResp |-> NoResponse, tokResps |-> <<>>]

\* lines 36-68 on the frame f
FlowRequestDeviceCode(f, stream) ==
    LET sc == ResolveScope(f.call.scope, f.call.client_id)
        verifier == GenerateVerifier(stream)
        challenge == PkceChallenge(verifier)
        hdrs == BuildHeaders(f.call.host_header)
    IN  [f EXCEPT !.pc = "device_wait",
                  !.stream = stream,
                  !.verifier = verifier,
                  !.challenge = challenge,
                  !.headers = hdrs,
                  !.wire = Append(f.wire,
                      Post(f.call.device_endpoint,
                           DeviceRequestData(f.call.client_id, challenge, sc),
                           hdrs))]

\* lines 69-83 on the frame f; rules is the content of the mapping object
FlowReceiveDeviceResponse(f, r, rules) ==
    LET step == HandleDeviceResponse(r, rules)
    IN  IF step.next = "raise"
        THEN [f EXCEPT !.pc = "failed",
                       !.result = Raised(step.exc),
                       !.devResp = r]
        ELSE [f EXCEPT !.pc = "poll",
                       !.uri = step.uri,
                       !.device_code = step.device_code,
                       !.stdout = Append(f.stdout, PromptPrefix \o step.uri),
                       !.devResp = r]

\* lines 87-97 on the frame f, with the value read from the name device_code
FlowSendPoll(f, dcode) ==
    [f EXCEPT !.pc = "poll_wait",
              !.wire = Append(f.wire,
                  Post(f.call.token_endpoint,
                       TokenRequestData(f.call.client_id, dcode, f.verifier),
                       f.headers))]

\* lines 99-115 on the frame f
FlowReceiveTokenResponse(f, r) ==
    LET step == HandleTokenResponse(r)
    IN  [f EXCEPT
            !.pc = IF step.next = "return" THEN "success"
                   ELSE IF step.next = "raise" THEN "failed"
                   ELSE "poll",
            !.result = IF step.next = "return" THEN Returned(step.value)
                       ELSE IF step.next = "raise" THEN Raised(step.exc)
                       ELSE f.result,
            !.stdout = IF r.status = 200 THEN Append(f.stdout, SuccessMessage)
                       ELSE IF step.next = "sleep"
                       THEN Append(f.stdout, WaitingMessage)
                       ELSE f.stdout,
            !.sleeps = IF step.next = "sleep"
                       THEN Sleep(f.sleeps, f.call.polling_interval)
                       ELSE f.sleeps,
            !.tokResps = Append(f.tokResps, r)]

\* variant: device_code is one name shared by the invocations (a global)
PollDeviceCode_Shared(fs, i) ==
    IF \E j \in DOMAIN fs : j # i /\ fs[j].device_code # None
    THEN fs[CHOOSE j \in DOMAIN fs : j # i /\ fs[j].device_code # None].device_code
    ELSE fs[i].device_code

\* device_code is a local of the invocation: a poll reads its own
PollDeviceCode(fs, i) == fs[i].device_code

MultiInit ==
    /\ flows = [i \in Invocations |-> NewFlow(MultiCall(i))]
    /\ shared_rewrite = DefaultEndpointRewrite
    /\ FlowIdle
    /\ ArgillaIdle
    /\ DoccanoIdle
    /\ TextIdle

MultiRequestDeviceCode(i) ==
    /\ flows[i].pc = "init"
    /\ \E stream \in 1..NumStreams :
           flows' = [flows EXCEPT ![i] = FlowRequestDeviceCode(flows[i], stream)]
    /\ UNCHANGED << shared_rewrite, flowVars, argillaVars, doccanoVars, textVars >>

MultiReceiveDeviceResponse(i) ==
    /\ flows[i].pc = "device_wait"
    /\ \E r \in MultiDeviceResponses :
           flows' = [flows EXCEPT
                        ![i] = FlowReceiveDeviceResponse(flows[i], r, shared_rewrite)]
    /\ UNCHANGED << shared_rewrite, flowVars, argillaVars, doccanoVars, textVars >>

MultiSendPoll(i) ==
    /\ flows[i].pc = "poll"
    /\ Len(flows[i].tokResps) < MaxPollsMulti
    /\ flows' = [flows EXCEPT
                    ![i] = FlowSendPoll(flows[i], PollDeviceCode(flows, i))]
    /\ UNCHANGED << shared_rewrite, flowVars, argillaVars, doccanoVars, textVars >>

MultiReceiveTokenResponse(i) ==
    /\ flows[i].pc = "poll_wait"
    /\ \E r \in MultiTokenResponses :
           flows' = [flows EXCEPT ![i] = FlowReceiveTokenResponse(flows[i], r)]
    /\ UNCHANGED << shared_rewrite, flowVars, argillaVars, doccanoVars, textVars >>

MultiNext ==
    \E i \in Invocations :
        \/ MultiRequestDeviceCode(i)
        \/ MultiReceiveDeviceResponse(i)
        \/ MultiSendPoll(i)
        \/ MultiReceiveTokenResponse(i)

MultiSpec == MultiInit /\ [][MultiNext]_vars

\* the frame of an invocation that ran alone and was answered with devResp
\* and then, poll by poll, with resps
RECURSIVE AlonePolls(_, _)
AlonePolls(f, resps) ==
    IF Len(resps) = 0 THEN f
    ELSE AlonePolls(
             FlowReceiveTokenResponse(FlowSendPoll(f, f.device_code), Head(resps)),
             Tail(resps))

Alone(call, stream, devResp, resps) ==
    IF stream = 0 THEN NewFlow(call)
    ELSE IF devResp = NoResponse
    THEN FlowRequestDeviceCode(NewFlow(call), stream)
    ELSE AlonePolls(
             FlowReceiveDeviceResponse(
                 FlowRequestDeviceCode(NewFlow(call), stream),
                 devResp, call.endpoint_rewrite),
             resps)

\* C12: two interleaved invocations do not interfere: every poll of an
\* invocation carries the device_code it was served and the verifier it
\* generated; its requests, output, sleeps and outcome are those of a run
\* alone against the same answers; a step of one invocation leaves the frame
\* of the other and the shared default mapping as they are.
C12_NoInterference ==
    /\ [](\A i \in Invocations :
            LET f == flows[i]
                a == Alone(MultiCall(i), f.stream, f.devResp, f.tokResps)
            IN  /\ \/ f = a
                   \/ f.pc = "poll_wait" /\ f = FlowSendPoll(a, a.device_code)
                /\ \A n \in 2..Len(f.wire) :
                       /\ f.wire[n].data.device_code
                              = f.devResp.body.fields.device_code
                       /\ f.wire[n].data.code_verifier
                              = GenerateVerifier(f.stream)
                       /\ f.wire[n].data.client_id = MultiCall(i).client_id)
    /\ [](shared_rewrite = DefaultEndpointRewrite)
    /\ [][\E i \in Invocations :
              \A j \in Invocations \ {i} : flows'[j] = flows[j]]_vars

C12_Witness ==
    /\ flows[1].pc = "success"
    /\ flows[2].pc = "poll_wait"
    /\ Len(flows[1].wire) = 3
    /\ Len(flows[2].wire) = 3
    /\ flows[1].device_code # flows[2].device_code
    /\ flows[1].verifier # flows[2].verifier
    /\ Contains(flows[1].device_code, shared_rewrite[1].original)

\* ---------------------------------------------------------- argilla_base.py
\* largest MAX_RETRIES that is enumerated (the environment sets it; default 10)
MaxRetriesArg == 3
\* calls of create_dataset_if_not_exists per run that are enumerated
MaxDatasetCalls == 3

\* default of ARGILLA_CONNECT_RETRY_DELAY
DefaultRetryDelay == 10
RetryDelays == {0, DefaultRetryDelay}

\* default of ARGILLA_WORKSPACE
ARGILLA_WORKSPACE == "default"

DatasetNames == {"text_classification", "token_classification"}

\* how one connection attempt can end: both calls work, rg.Argilla(...)
\* raises, client.workspaces(...) raises
AttemptOutcomes == {"ok", "connect_error", "workspace_error"}

\* where a call of create_dataset_if_not_exists can raise: nowhere,
\* client.workspaces, the iteration of workspace.datasets,
\* rg.Dataset.from_name, dataset.create
DatasetFaults ==
    {"none", "workspace_error", "list_error", "from_name_error", "create_error"}

\* variant: a sleep follows the last failed attempt as well
SleepsAfterFailure_Always(attempt, max) == attempt < max

\* if attempt < MAX_RETRIES - 1
SleepsAfterFailure(attempt, max) == attempt < max - 1

\* variant: the name of the workspace is compared instead of the dataset's
DatasetExists_WorkspaceName(name, datasets) ==
    \E ds \in datasets : ds = ARGILLA_WORKSPACE

\* the loop over workspace.datasets: some dataset has the wanted name
DatasetExists(name, datasets) == \E ds \in datasets : ds = name

\* the body of create_dataset_if_not_exists against the workspace `datasets`,
\* with the fault the libraries inject: the outcome, the create() call it
\* issued (if any) and the workspace afterwards
DatasetStep(name, fault, datasets) ==
    IF fault \in {"workspace_error", "list_error"}
    THEN [result |-> Raised(fault), created |-> <<>>, datasets |-> datasets]
    ELSE IF DatasetExists(name, datasets)
    THEN IF fault = "from_name_error"
         THEN [result |-> Raised(fault), created |-> <<>>, datasets |-> datasets]
         ELSE [result |-> Returned([name |-> name, origin |-> "existing"]),
               created |-> <<>>, datasets |-> datasets]
    ELSE IF name \in datasets
    THEN \* the server refuses a second dataset of that name
         [result |-> Raised("conflict"),
          created |-> << [name |-> name, ok |-> FALSE] >>,
          datasets |-> datasets]
    ELSE IF fault = "create_error"
    THEN [result |-> Raised(fault),
          created |-> << [name |-> name, ok |-> FALSE] >>,
          datasets |-> datasets]
    ELSE [result |-> Returned([name |-> name, origin |-> "created"]),
          created |-> << [name |-> name, ok |-> TRUE] >>,
          datasets |-> datasets \cup {name}]

ArgillaInit ==
    /\ argilla_max_retries \in 1..MaxRetriesArg
    /\ argilla_retry_delay \in RetryDelays
    /\ a_pc = "connecting"
    /\ attempt_outcomes = <<>>
    /\ a_sleeps = <<>>
    /\ client = "None"
    /\ server_datasets \in SUBSET DatasetNames
    /\ create_log = <<>>
    /\ ds_calls = 0
    /\ ds_last = [name |-> "", fault |-> "none", existed |-> FALSE]
    /\ ds_result = NoResult
    /\ FlowIdle
    /\ MultiIdle
    /\ DoccanoIdle
    /\ TextIdle

\* init_argilla_client, one iteration of the loop (and the return None that
\* follows the last one)
ConnectAttempt ==
    /\ a_pc = "connecting"
    /\ Len(attempt_outcomes) < argilla_max_retries
    /\ \E o \in AttemptOutcomes :
        LET attempt == Len(attempt_outcomes)
        IN  /\ attempt_outcomes' = Append(attempt_outcomes, o)
            /\ IF o = "ok"
               THEN /\ client' = "client"
                    /\ a_pc' = "ready"
                    /\ UNCHANGED a_sleeps
               ELSE /\ a_sleeps' =
                        IF SleepsAfterFailure(attempt, argilla_max_retries)
                        THEN Append(a_sleeps, argilla_retry_delay)
                        ELSE a_sleeps
                    /\ a_pc' = IF attempt + 1 < argilla_max_retries
                               THEN "connecting" ELSE "no_client"
                    /\ UNCHANGED client
    /\ UNCHANGED << argilla_max_retries, argilla_retry_delay, server_datasets,
                    create_log, ds_calls, ds_last, ds_result >>
    /\ UNCHANGED << flowVars, multiVars, doccanoVars, textVars >>

\* one call of create_dataset_if_not_exists(client, name, settings)
CreateDatasetIfNotExists ==
    /\ a_pc = "ready"
    /\ ds_calls < MaxDatasetCalls
    /\ \E name \in DatasetNames, fault \in DatasetFaults :
        LET step == DatasetStep(name, fault, server_datasets)
        IN  /\ ds_result' = step.result
            /\ create_log' = create_log \o step.created
            /\ server_datasets' = step.datasets
            /\ ds_last' = [name |-> name, fault |-> fault,
                           existed |-> name \in server_datasets]
    /\ ds_calls' = ds_calls + 1
    /\ UNCHANGED << argilla_max_retries, argilla_retry_delay, a_pc,
                    attempt_outcomes, a_sleeps, client >>
    /\ UNCHANGED << flowVars, multiVars, doccanoVars, textVars >>

ArgillaNext ==
    \/ ConnectAttempt
    \/ CreateDatasetIfNotExists

ArgillaSpec == ArgillaInit /\ [][ArgillaNext]_vars

\* the failed attempts among the first n
FailedAmong(n) == {k \in 1..n : attempt_outcomes[k] # "ok"}

\* C17: init_argilla_client makes at most MAX_RETRIES attempts and then has
\* returned; it returns the client at the first attempt that succeeds and
\* makes no attempt after it; it returns None exactly when all MAX_RETRIES
\* attempts failed; it sleeps RETRY_DELAY_SECONDS after every failed attempt
\* but the last of the MAX_RETRIES, so at most MAX_RETRIES - 1 times.
C17_ConnectRetries ==
    LET n == Len(attempt_outcomes)
    IN  /\ n <= argilla_max_retries
        /\ \A k \in 1..(n - 1) : attempt_outcomes[k] # "ok"
        /\ (a_pc = "connecting")
               <=> (n < argilla_max_retries /\ FailedAmong(n) = 1..n)
        /\ (a_pc = "ready")
               <=> (n >= 1 /\ attempt_outcomes[n] = "ok")
        /\ (a_pc = "ready") => client = "client"
        /\ (a_pc = "no_client")
               <=> (n = argilla_max_retries /\ FailedAmong(n) = 1..n)
        /\ (a_pc = "no_client") => client = "None"
        /\ a_sleeps =
               [k \in 1..Cardinality(FailedAmong(n) \ {argilla_max_retries})
                   |-> argilla_retry_delay]
        /\ Len(a_sleeps) <= argilla_max_retries - 1

C17_Witness ==
    /\ a_pc = "no_client"
    /\ argilla_max_retries = 3
    /\ Len(attempt_outcomes) = 3
    /\ a_sleeps = <<DefaultRetryDelay, DefaultRetryDelay>>

\* the create() calls for the name that went through
SuccessfulCreates(name) ==
    {k \in 1..Len(create_log) : create_log[k].name = name /\ create_log[k].ok}

\* C18: create_dataset_if_not_exists makes no create call and returns the
\* existing dataset when the name is in the workspace, makes exactly one
\* create call when it is not; over all calls at most one create per name
\* goes through; an exception of the check or the creation reaches the caller.
C18_CreateOnce ==
    /\ [](\A name \in DatasetNames : Cardinality(SuccessfulCreates(name)) <= 1)
    /\ [][ (ds_calls' = ds_calls + 1) =>
            LET name == ds_last'.name
                fault == ds_last'.fault
            IN  /\ ds_last'.existed = (name \in server_datasets)
                /\ (fault \in {"workspace_error", "list_error"}) =>
                       /\ ds_result' = Raised(fault)
                       /\ create_log' = create_log
                /\ (fault \notin {"workspace_error", "list_error"}
                        /\ name \in server_datasets) =>
                       /\ create_log' = create_log
                       /\ server_datasets' = server_datasets
                       /\ ds_result' =
                              IF fault = "from_name_error" THEN Raised(fault)
                              ELSE Returned([name |-> name,
                                             origin |-> "existing"])
                /\ (fault \notin {"workspace_error", "list_error"}
                        /\ name \notin server_datasets) =>
                       /\ Len(create_log') = Len(create_log) + 1
                       /\ create_log'[Len(create_log')].name = name
                       /\ IF fault = "create_error"
                          THEN /\ ds_result' = Raised(fault)
                               /\ ~create_log'[Len(create_log')].ok
                               /\ server_datasets' = server_datasets
                          ELSE /\ ds_result' = Returned([name |-> name,
                                                         origin |-> "created"])
                               /\ create_log'[Len(create_log')].ok
                               /\ server_datasets' = server_datasets \cup {name}
          ]_vars

C18_Witness ==
    /\ ds_calls = 3
    /\ Len(create_log) = 2
    /\ ~create_log[1].ok
    /\ create_log[2].ok
    /\ create_log[1].name = create_log[2].name
    /\ ds_result = Returned([name |-> create_log[2].name, origin |-> "existing"])

\* --------------------------------------------------- load_doccano_data.py
LABELS == <<"positive", "negative", "neutral">>
MAX_RETRIES == 20
RETRY_DELAY == 15

\* status codes the health endpoint is made to answer with
HealthStatuses == {200, 204, 503}

\* how requests.get can end: a response, a ConnectionError (ConnectTimeout
\* is one), another Timeout, any other exception
HealthOutcomes ==
    {[kind |-> "response", status |-> s] : s \in HealthStatuses}
        \cup {[kind |-> k, status |-> 0] :
                 k \in {"connection_error", "timeout", "other_error"}}

\* variant: every 2xx answer counts as healthy
HealthOk_Any2xx(o) == o.kind = "response" /\ o.status \in 200..299

\* if response.status_code == 200
HealthOk(o) == o.kind = "response" /\ o.status = 200

\* the outcomes after which the loop prints "not ready yet" and sleeps
HealthFailed(o) ==
    /\ ~HealthOk(o)
    /\ o.kind \in {"response", "connection_error", "timeout"}

Call(op) == [op |-> op, label |-> ""]
LabelCall(text) == [op |-> "create_label", label |-> text]

\* the create_label calls made so far
LabelCalls == SelectSeq(calls, LAMBDA c : c.op = "create_label")

\* variant: a failed label ends the loop over LABELS
AfterLabel_StopOnFailure(n, ok) ==
    IF n < Len(LABELS) /\ ok THEN "labels" ELSE "upload"

\* where main goes after the n-th label: the except clause only prints
AfterLabel(n, ok) == IF n < Len(LABELS) THEN "labels" ELSE "upload"

DoccanoInit ==
    /\ d_pc = "waiting"
    /\ health_requests = 0
    /\ d_sleeps = <<>>
    /\ timeout_prints = 0
    /\ last_health = [kind |-> "none", status |-> 0]
    /\ wait_result = "None"
    /\ calls = <<>>
    /\ call_failures = {}
    /\ project_source = "none"
    /\ exit_code = "None"
    /\ FlowIdle
    /\ MultiIdle
    /\ ArgillaIdle
    /\ TextIdle

\* wait_for_doccano, one iteration of the loop; the last failed one is
\* followed by return False and main's exit(1), an exception that is neither
\* a ConnectionError nor a Timeout leaves wait_for_doccano and main
WaitForDoccano ==
    /\ d_pc = "waiting"
    /\ health_requests < MAX_RETRIES
    /\ \E o \in HealthOutcomes :
        /\ last_health' = o
        /\ health_requests' = health_requests + 1
        /\ timeout_prints' = timeout_prints + (IF o.kind = "timeout" THEN 1 ELSE 0)
        /\ IF HealthOk(o)
           THEN /\ wait_result' = "True"
                /\ d_pc' = "login"
                /\ UNCHANGED << d_sleeps, exit_code >>
           ELSE IF HealthFailed(o)
           THEN /\ d_sleeps' = Append(d_sleeps, RETRY_DELAY)
                /\ IF health_requests + 1 < MAX_RETRIES
                   THEN UNCHANGED << wait_result, d_pc, exit_code >>
                   ELSE /\ wait_result' = "False"
                        /\ d_pc' = "done"
                        /\ exit_code' = "1"
           ELSE /\ wait_result' = "Raised"
                /\ d_pc' = "done"
                /\ exit_code' = "1"
                /\ UNCHANGED d_sleeps
    /\ UNCHANGED << calls, call_failures, project_source >>
    /\ UNCHANGED << flowVars, multiVars, argillaVars, textVars >>

\* a call of the client inside main's try block whose exception reaches the
\* outer except clause: print and exit(1)
FatalCall(op, ok, next) ==
    /\ calls' = Append(calls, Call(op))
    /\ IF ok
       THEN /\ d_pc' = next
            /\ UNCHANGED << call_failures, exit_code >>
       ELSE /\ call_failures' = call_failures \cup {Call(op)}
            /\ d_pc' = "done"
            /\ exit_code' = "1"

\* DoccanoClient(...) and client.login(...)
Login ==
    /\ d_pc = "login"
    /\ \E ok \in BOOLEAN : FatalCall("login", ok, "list_projects")
    /\ UNCHANGED << health_requests, d_sleeps, timeout_prints, last_health,
                    wait_result, project_source >>
    /\ UNCHANGED << flowVars, multiVars, argillaVars, textVars >>

\* client.list_projects() and the search for PROJECT_NAME
ListProjects ==
    /\ d_pc = "list_projects"
    /\ \E o \in {"found", "missing", "error"} :
        /\ FatalCall("list_projects", o # "error",
                     IF o = "found" THEN "upload" ELSE "create_project")
        /\ project_source' = IF o = "found" THEN "reused" ELSE project_source
    /\ UNCHANGED << health_requests, d_sleeps, timeout_prints, last_health,
                    wait_result >>
    /\ UNCHANGED << flowVars, multiVars, argillaVars, textVars >>

\* client.create_project(...)
CreateProject ==
    /\ d_pc = "create_project"
    /\ \E ok \in BOOLEAN :
        /\ FatalCall("create_project", ok, "labels")
        /\ project_source' = IF ok THEN "created" ELSE project_source
    /\ UNCHANGED << health_requests, d_sleeps, timeout_prints, last_health,
                    wait_result >>
    /\ UNCHANGED << flowVars, multiVars, argillaVars, textVars >>

\* one iteration of the loop over LABELS
CreateLabel ==
    /\ d_pc = "labels"
    /\ \E ok \in BOOLEAN :
        LET n == Len(LabelCalls) + 1
        IN  /\ calls' = Append(calls, LabelCall(LABELS[n]))
            /\ call_failures' =
                   IF ok THEN call_failures
                   ELSE call_failures \cup {LabelCall(LABELS[n])}
            /\ d_pc' = AfterLabel(n, ok)
    /\ UNCHANGED << health_requests, d_sleeps, timeout_prints, last_health,
                    wait_result, project_source, exit_code >>
    /\ UNCHANGED << flowVars, multiVars, argillaVars, textVars >>

\* client.upload(...) in its own try block, then the end of the script
Upload ==
    /\ d_pc = "upload"
    /\ \E ok \in BOOLEAN :
        /\ calls' = Append(calls, Call("upload"))
        /\ call_failures' =
               IF ok THEN call_failures ELSE call_failures \cup {Call("upload")}
    /\ d_pc' = "done"
    /\ exit_code' = "0"
    /\ UNCHANGED << health_requests, d_sleeps, timeout_prints, last_health,
                    wait_result, project_source >>
    /\ UNCHANGED << flowVars, multiVars, argillaVars, textVars >>

DoccanoNext ==
    \/ WaitForDoccano
    \/ Login
    \/ ListProjects
    \/ CreateProject
    \/ CreateLabel
    \/ Upload

DoccanoSpec == DoccanoInit /\ [][DoccanoNext]_vars

\* C19: wait_for_doccano issues at most MAX_RETRIES (20) health requests; it
\* returns True at the first request answered with status 200 and does not
\* sleep after it; it returns False exactly when all 20 attempts ended in a
\* non-200 status, a connection error or a timeout; RETRY_DELAY is slept
\* after every such attempt, the last one included.
C19_WaitForDoccano ==
    /\ [] /\ health_requests <= MAX_RETRIES
          /\ d_sleeps = [k \in 1..Len(d_sleeps) |-> RETRY_DELAY]
          /\ (wait_result = "None") =>
                 /\ Len(d_sleeps) = health_requests
                 /\ health_requests < MAX_RETRIES
          /\ (wait_result = "True") <=>
                 (last_health.kind = "response" /\ last_health.status = 200)
          /\ (wait_result = "True") => Len(d_sleeps) = health_requests - 1
          /\ (wait_result = "False") <=>
                 (health_requests = MAX_RETRIES /\ Len(d_sleeps) = MAX_RETRIES)
          /\ (wait_result = "Raised") => last_health.kind = "other_error"
    /\ [][ /\ (health_requests' # health_requests) =>
                 /\ wait_result = "None"
                 /\ health_requests' = health_requests + 1
                 /\ d_sleeps' =
                        IF \/ last_health'.kind \in {"connection_error", "timeout"}
                           \/ /\ last_health'.kind = "response"
                              /\ last_health'.status # 200
                        THEN Append(d_sleeps, RETRY_DELAY)
                        ELSE d_sleeps
           /\ (health_requests' = health_requests) => d_sleeps' = d_sleeps
         ]_vars

C19_Witness ==
    /\ wait_result = "False"
    /\ health_requests = 20
    /\ Len(d_sleeps) = 20
    /\ timeout_prints = 7
    /\ last_health = [kind |-> "response", status |-> 204]

FatalCalls == {Call("login"), Call("list_projects"), Call("create_project")}

Made(c) == \E k \in 1..Len(calls) : calls[k] = c

\* C20: main calls the client only after wait_for_doccano returned True;
\* labels are created only for a project created in this run, never for a
\* reused one; a label that fails stops neither the other labels nor the
\* upload; the upload is attempted after a reuse as after a creation; a
\* failed upload does not give exit status 1, a failed login, listing or
\* project creation does.
C20_MainCalls ==
    /\ (calls # <<>>) => wait_result = "True"
    /\ (LabelCalls # <<>>) => project_source = "created"
    /\ (project_source = "reused") =>
           /\ LabelCalls = <<>>
           /\ ~Made(Call("create_project"))
    /\ (project_source = "created") =>
           /\ LabelCalls = [k \in 1..Len(LabelCalls) |-> LabelCall(LABELS[k])]
           /\ Made(Call("upload")) => Len(LabelCalls) = Len(LABELS)
    /\ (d_pc = "done" /\ project_source # "none") => Made(Call("upload"))
    /\ (d_pc = "done" /\ Made(Call("upload"))) => exit_code = "0"
    /\ (call_failures \cap FatalCalls # {}) =>
           /\ exit_code = "1"
           /\ d_pc = "done"
           /\ calls[Len(calls)] \in call_failures
    /\ (exit_code = "1") <=>
           \/ wait_result \in {"False", "Raised"}
           \/ call_failures \cap FatalCalls # {}

C20_Witness ==
    /\ d_pc = "done"
    /\ project_source = "created"
    /\ call_failures = {LabelCall("positive"), LabelCall("negative"), Call("upload")}
    /\ Len(LabelCalls) = 3
    /\ exit_code = "0"

\* ------------------------------------------- load_text_classification_data.py
QUESTION_NAME == "sentiment"
SUGGESTION_AGENT == "distilbert-sst2-english-v1"
\* the keys of the loader's LABELS dict
TextLabels == {"positive", "negative", "neutral"}
pipe_key == "text-classification-sentiment"

\* the list in prepare_records: ten dicts, each with a non-empty "text"
NumRecords == 10
records_data == [k \in 1..NumRecords |-> [text |-> <<"review", k>>]]

\* how pipeline(...) can end
LoadOutcomes == {"ok", "error"}

\* labels the model is made to answer with, in the spelling it uses
ModelLabels == {"POSITIVE", "NEGATIVE", "positive", "LABEL_1"}

\* how a call of the cached pipeline can end: predictions whose best one has
\* the label, an empty result, an exception (the score is left out)
InferenceOutcomes ==
    {[kind |-> "predictions", label |-> l] : l \in ModelLabels}
        \cup {[kind |-> k, label |-> ""] : k \in {"empty", "error"}}

\* str.upper() on the labels above
UpperLabel(l) ==
    CASE l = "positive" -> "POSITIVE"
      [] l = "negative" -> "NEGATIVE"
      [] OTHER -> l

\* what get_text_classification_suggestions returns: None or a list
NoSuggestions == [kind |-> "None", list |-> <<>>]
SuggestionList(l) == [kind |-> "list", list |-> l]

Suggestion(value) ==
    [question_name |-> QUESTION_NAME, value |-> value, agent |-> SUGGESTION_AGENT]

\* the mapping of the model's label to a key of LABELS
PredictedValue(label) ==
    LET model_label == UpperLabel(label)
    IN  IF model_label = "POSITIVE" /\ "positive" \in TextLabels THEN "positive"
        ELSE IF model_label = "NEGATIVE" /\ "negative" \in TextLabels THEN "negative"
        ELSE IF "neutral" \in TextLabels THEN "neutral"
        ELSE "None"

\* variant: the cache is never consulted
NeedsLoad_Always(cache) == TRUE

\* if pipe_key not in LOADED_PIPELINE_CACHE
NeedsLoad(cache) == pipe_key \notin cache

\* get_text_classification_suggestions(data) with the factory `installed`,
\* the cache as it is, and the way the load (if one is made) and the
\* inference (if one is made) end: the value returned, the cache afterwards
\* and the pipeline(...) calls made
GetTextClassificationSuggestions(data, installed, cache, load, infer) ==
    IF installed = "None"
    THEN [value |-> NoSuggestions, cache |-> cache, loads |-> <<>>]
    ELSE IF NeedsLoad(cache) /\ load = "error"
    THEN [value |-> NoSuggestions, cache |-> cache, loads |-> << "error" >>]
    ELSE
      LET loads == IF NeedsLoad(cache) THEN << "ok" >> ELSE <<>>
          cache2 == IF NeedsLoad(cache) THEN cache \cup {pipe_key} ELSE cache
          value ==
              IF data.text = <<>> THEN NoSuggestions
              ELSE IF infer.kind # "predictions" THEN NoSuggestions
              ELSE IF PredictedValue(infer.label) = "None" THEN NoSuggestions
              ELSE SuggestionList(<< Suggestion(PredictedValue(infer.label)) >>)
      IN  [value |-> value, cache |-> cache2, loads |-> loads]

\* suggestions if suggestions else []
OrEmptyList(value) == IF value.kind = "list" THEN value.list ELSE <<>>

TextInit ==
    /\ pipeline \in {"None", "pipeline"}
    /\ LOADED_PIPELINE_CACHE = {}
    /\ load_log = <<>>
    /\ records = <<>>
    /\ t_pc = "prepare"
    /\ FlowIdle
    /\ MultiIdle
    /\ ArgillaIdle
    /\ DoccanoIdle

\* prepare_records, one iteration of the loop over records_data
PrepareRecord ==
    /\ t_pc = "prepare"
    /\ Len(records) < Len(records_data)
    /\ \E load \in LoadOutcomes, infer \in InferenceOutcomes :
        LET data == records_data[Len(records) + 1]
            call == GetTextClassificationSuggestions(
                        data, pipeline, LOADED_PIPELINE_CACHE, load, infer)
        IN  /\ LOADED_PIPELINE_CACHE' = call.cache
            /\ load_log' = load_log \o call.loads
            /\ records' = Append(records,
                                 [fields |-> data,
                                  suggestions |-> OrEmptyList(call.value)])
    /\ UNCHANGED << pipeline, t_pc >>
    /\ UNCHANGED << flowVars, multiVars, argillaVars, doccanoVars >>

\* prepare_records, return records
ReturnRecords ==
    /\ t_pc = "prepare"
    /\ Len(records) = Len(records_data)
    /\ t_pc' = "returned"
    /\ UNCHANGED << pipeline, LOADED_PIPELINE_CACHE, load_log, records >>
    /\ UNCHANGED << flowVars, multiVars, argillaVars, doccanoVars >>

TextNext ==
    \/ PrepareRecord
    \/ ReturnRecords

TextSpec == TextInit /\ [][TextNext]_vars

\* the pipeline(...) calls that went through
SuccessfulLoads == {k \in 1..Len(load_log) : load_log[k] = "ok"}

\* C21: the suggestion model is loaded at most once per run when loading
\* succeeds; after the first successful load every later call reuses the
\* cached pipeline; a failed load leaves the cache empty, gives the record
\* no suggestion, and the next record attempts the load again; one record
\* is produced for every input text, with its text and possibly no suggestion.
C21_LoadOnce ==
    /\ [] /\ Cardinality(SuccessfulLoads) <= 1
          /\ (LOADED_PIPELINE_CACHE # {}) <=> (SuccessfulLoads # {})
          /\ \A k \in SuccessfulLoads : k = Len(load_log)
          /\ Len(records) <= Len(records_data)
          /\ \A k \in 1..Len(records) : records[k].fields = records_data[k]
          /\ (t_pc = "returned") => Len(records) = Len(records_data)
    /\ [][ (Len(records') = Len(records) + 1) =>
             /\ (LOADED_PIPELINE_CACHE # {}) =>
                    /\ load_log' = load_log
                    /\ LOADED_PIPELINE_CACHE' = LOADED_PIPELINE_CACHE
             /\ (LOADED_PIPELINE_CACHE = {} /\ pipeline # "None") =>
                    Len(load_log') = Len(load_log) + 1
             /\ (Len(load_log') = Len(load_log) + 1
                     /\ load_log'[Len(load_log')] = "error") =>
                    /\ LOADED_PIPELINE_CACHE' = {}
                    /\ records'[Len(records')].suggestions = <<>>
         ]_vars

C21_Witness ==
    /\ t_pc = "returned"
    /\ load_log = << "error", "error", "ok" >>
    /\ Len(records) = 10
    /\ records[2].suggestions = <<>>
    /\ records[3].suggestions = << Suggestion("positive") >>
    /\ records[4].suggestions = <<>>
    /\ records[10].suggestions = << Suggestion("neutral") >>

====
